---- MODULE Spec2Model ----
(***************************************************************************)
(* Scribe.dev UI: the thread list view (ThreadsList).                      *)
(*                                                                         *)
(* A string is a sequence of one-character strings, so that lower-casing,  *)
(* trimming and substring search are computed as String.prototype does.    *)
(* An array is a sequence.  Array.prototype.sort sorts in place: the       *)
(* model keeps the content of the `threads` prop array as a variable,      *)
(* because the memoised computation sorts that very array whenever no      *)
(* filter has replaced it by a copy.                                       *)
(***************************************************************************)
EXTENDS Integers, Sequences, FiniteSets, TLC

\* ThreadsList
VARIABLES supplied, threads, classroomContext, searchQuery,
          selectedThreadType, selectedUnit, selectedCategory, sortBy,
          filteredThreads, threadStats

threadVars == <<supplied, threads, classroomContext, searchQuery,
                selectedThreadType, selectedUnit, selectedCategory, sortBy,
                filteredThreads, threadStats>>

\* ContentItem: the `content` prop, the component state, the requests to
\* the content API that have not settled, the timers that have not fired,
\* and the number of calls made so far to the API and to onRefresh.
VARIABLES content, isExpanded, isDeleting, showDeleteConfirm, isDeleted,
          deleteSuccess, isEditing, editedContent, isSaving, saveSuccess,
          editError, updateRequests, deleteRequests, saveTimers,
          deleteTimers, updateCalls, deleteCalls, refreshCalls

itemVars == <<content, isExpanded, isDeleting, showDeleteConfirm, isDeleted,
              deleteSuccess, isEditing, editedContent, isSaving, saveSuccess,
              editError, updateRequests, deleteRequests, saveTimers,
              deleteTimers, updateCalls, deleteCalls, refreshCalls>>

\* EnhancedNewThreadModal: the props, the component state, the payloads
\* handed to onSubmit so far, and the calls of generateAiSuggestion that
\* wait at their await, each with the state its closure holds.
VARIABLES threadType, units, classroomId, classroomName, title,
          modalContent, selectedUnitId, modalSelectedCategory, visibility,
          tags, currentTag, isGeneratingAiSuggestion, showPreview, submitted,
          aiRequests

modalVars == <<threadType, units, classroomId, classroomName, title,
               modalContent, selectedUnitId, modalSelectedCategory,
               visibility, tags, currentTag, isGeneratingAiSuggestion,
               showPreview, submitted, aiRequests>>

vars == <<threadVars, itemVars, modalVars>>

(***************************************************************************)
(* Bounds                                                                  *)
(***************************************************************************)
MaxThreads == 3

\* The number of requests a ContentItem sends to the content API.
MaxRequests == 2

\* The number of times the new-thread form is submitted.
MaxSubmits == 2

(***************************************************************************)
(* Strings                                                                 *)
(***************************************************************************)
ToLowerChar(c) ==
    CASE c = "A" -> "a"
      [] c = "B" -> "b"
      [] OTHER -> c

toLowerCase(s) == [i \in 1..Len(s) |-> ToLowerChar(s[i])]

IsWhiteSpace(c) == c = " "

RECURSIVE trimStart(_)
trimStart(s) ==
    IF s # <<>> /\ IsWhiteSpace(Head(s)) THEN trimStart(Tail(s)) ELSE s

RECURSIVE trimEnd(_)
trimEnd(s) ==
    IF s # <<>> /\ IsWhiteSpace(s[Len(s)])
    THEN trimEnd(SubSeq(s, 1, Len(s) - 1))
    ELSE s

trim(s) == trimEnd(trimStart(s))

\* JavaScript truthiness of a string: the empty string is falsy.
Truthy(s) == s # <<>>

\* String.prototype.includes: q occurs in s at some offset.
includes(s, q) ==
    \E i \in 0..(Len(s) - Len(q)) : SubSeq(s, i + 1, i + Len(q)) = q

(***************************************************************************)
(* Dates: new Date(iso).getTime(), milliseconds since the epoch.           *)
(***************************************************************************)
getTime(iso) ==
    CASE iso = "1970-01-02T00:00:00.000Z" -> 1 * 86400000
      [] iso = "1970-01-03T00:00:00.000Z" -> 2 * 86400000
      [] iso = "1970-01-04T00:00:00.000Z" -> 3 * 86400000

(***************************************************************************)
(* filteredThreads (useMemo): the comparator handed to filtered.sort       *)
(***************************************************************************)
\* A slip: the operands the wrong way round, an ascending order.
compareThreadsAscending(a, b, sort) ==
    CASE sort = "recent"  -> getTime(a.updatedAt) - getTime(b.updatedAt)
      [] sort = "replies" -> a.repliesCount - b.repliesCount
      [] sort = "created" -> getTime(a.createdAt) - getTime(b.createdAt)
      [] OTHER -> 0

compareThreads(a, b, sort) ==
    CASE sort = "recent"  -> getTime(b.updatedAt) - getTime(a.updatedAt)
      [] sort = "replies" -> b.repliesCount - a.repliesCount
      [] sort = "created" -> getTime(b.createdAt) - getTime(a.createdAt)
      [] OTHER -> 0

(***************************************************************************)
(* Array.prototype.sort(compareFn): in place and stable.  The result is    *)
(* the one an insertion sort gives: each element goes behind every element *)
(* that does not compare greater than it.                                  *)
(***************************************************************************)
InsertPos(sorted, x, sort) ==
    IF \E i \in 1..Len(sorted) : compareThreads(sorted[i], x, sort) > 0
    THEN CHOOSE i \in 1..Len(sorted) :
            /\ compareThreads(sorted[i], x, sort) > 0
            /\ \A j \in 1..(i - 1) : compareThreads(sorted[j], x, sort) <= 0
    ELSE Len(sorted) + 1

InsertSorted(sorted, x, sort) ==
    LET p == InsertPos(sorted, x, sort)
    IN  SubSeq(sorted, 1, p - 1) \o <<x>> \o SubSeq(sorted, p, Len(sorted))

ArraySort(arr, sort) ==
    LET sortedPrefix[n \in 0..Len(arr)] ==
            IF n = 0 THEN <<>>
            ELSE InsertSorted(sortedPrefix[n - 1], arr[n], sort)
    IN  sortedPrefix[Len(arr)]

(***************************************************************************)
(* filteredThreads (useMemo): the filters                                  *)
(***************************************************************************)
\* A slip: the query is compared as typed, not lower-cased.
matchesSearchQueryAsTyped(thread, search) ==
    LET query == search
    IN  \/ includes(toLowerCase(thread.title), query)
        \/ includes(toLowerCase(thread.content), query)
        \/ includes(toLowerCase(thread.authorName), query)
        \/ \E i \in 1..Len(thread.tags) :
              includes(toLowerCase(thread.tags[i]), query)

matchesSearch(thread, search) ==
    LET query == toLowerCase(search)
    IN  \/ includes(toLowerCase(thread.title), query)
        \/ includes(toLowerCase(thread.content), query)
        \/ includes(toLowerCase(thread.authorName), query)
        \/ \E i \in 1..Len(thread.tags) :
              includes(toLowerCase(thread.tags[i]), query)

\* A slip: the search string is tested without trimming it.
searchActiveUntrimmed(search) == Truthy(search)

searchActive(search) == Truthy(trim(search))

matchesType(thread, type) == thread.threadType = type

\* A slip: the unit filter without the thread type test.
matchesUnitAnyType(thread, unit) == thread.unitId = unit

matchesUnit(thread, unit) ==
    thread.threadType = "classroom" /\ thread.unitId = unit

\* A slip: the category filter without the thread type test.
matchesCategoryAnyType(thread, category) == thread.category = category

matchesCategory(thread, category) ==
    thread.threadType = "generic" /\ thread.category = category

\* `filtered` is still the `threads` array itself when no filter ran.
aliasesInput(search, type, unit, category) ==
    /\ ~searchActive(search)
    /\ type = "all"
    /\ unit = "all"
    /\ category = "all"

\* A slip: the results of the active filters are appended to one another
\* instead of each filter narrowing the result of the one before.
applyFiltersAppended(arr, search, type, unit, category) ==
    LET f1 == IF searchActive(search)
              THEN SelectSeq(arr, LAMBDA t : matchesSearch(t, search))
              ELSE <<>>
        f2 == IF type # "all"
              THEN SelectSeq(arr, LAMBDA t : matchesType(t, type))
              ELSE <<>>
        f3 == IF unit # "all"
              THEN SelectSeq(arr, LAMBDA t : matchesUnit(t, unit))
              ELSE <<>>
        f4 == IF category # "all"
              THEN SelectSeq(arr, LAMBDA t : matchesCategory(t, category))
              ELSE <<>>
    IN  IF aliasesInput(search, type, unit, category)
        THEN arr
        ELSE f1 \o f2 \o f3 \o f4

\* A slip: each filter reads the `threads` array instead of the result of
\* the filter before it, so only the last active filter counts.
applyFiltersLastWins(arr, search, type, unit, category) ==
    LET f1 == IF searchActive(search)
              THEN SelectSeq(arr, LAMBDA t : matchesSearch(t, search))
              ELSE arr
        f2 == IF type # "all"
              THEN SelectSeq(arr, LAMBDA t : matchesType(t, type))
              ELSE f1
        f3 == IF unit # "all"
              THEN SelectSeq(arr, LAMBDA t : matchesUnit(t, unit))
              ELSE f2
        f4 == IF category # "all"
              THEN SelectSeq(arr, LAMBDA t : matchesCategory(t, category))
              ELSE f3
    IN  f4

\* The array `filtered` refers to after the four filter steps; each
\* Array.prototype.filter gives a new array and leaves its input as it is.
applyFilters(arr, search, type, unit, category) ==
    LET f1 == IF searchActive(search)
              THEN SelectSeq(arr, LAMBDA t : matchesSearch(t, search))
              ELSE arr
        f2 == IF type # "all"
              THEN SelectSeq(f1, LAMBDA t : matchesType(t, type))
              ELSE f1
        f3 == IF unit # "all"
              THEN SelectSeq(f2, LAMBDA t : matchesUnit(t, unit))
              ELSE f2
        f4 == IF category # "all"
              THEN SelectSeq(f3, LAMBDA t : matchesCategory(t, category))
              ELSE f3
    IN  f4

\* The value returned by the memoised function.
computeFiltered(arr, search, type, unit, category, sort) ==
    ArraySort(applyFilters(arr, search, type, unit, category), sort)

\* The content of the `threads` array after the memoised function ran.
threadsAfter(arr, search, type, unit, category, sort) ==
    IF aliasesInput(search, type, unit, category)
    THEN computeFiltered(arr, search, type, unit, category, sort)
    ELSE arr

\* availableCategories (useMemo): the categories of the generic threads.
availableCategories(arr) ==
    {arr[i].category : i \in {j \in 1..Len(arr) : arr[j].threadType = "generic"}}

\* A slip: the generic count is what is left of the open threads.
computeStatsGenericOfOpen(arr) ==
    LET total == Len(arr)
        resolved == Len(SelectSeq(arr, LAMBDA t : t.isResolved))
        open == total - resolved
        classroom ==
            Len(SelectSeq(arr, LAMBDA t : t.threadType = "classroom"))
    IN  [total |-> total,
         resolved |-> resolved,
         open |-> open,
         classroom |-> classroom,
         generic |-> open - classroom]

\* threadStats (useMemo): it depends on the `threads` prop only.
computeStats(arr) ==
    LET total == Len(arr)
        resolved == Len(SelectSeq(arr, LAMBDA t : t.isResolved))
    IN  [total |-> total,
         resolved |-> resolved,
         open |-> total - resolved,
         classroom |->
             Len(SelectSeq(arr, LAMBDA t : t.threadType = "classroom")),
         generic |->
             Len(SelectSeq(arr, LAMBDA t : t.threadType = "generic"))]

showFilters == TRUE

(***************************************************************************)
(* Inputs                                                                  *)
(***************************************************************************)
Day1 == "1970-01-02T00:00:00.000Z"
Day2 == "1970-01-03T00:00:00.000Z"
Day3 == "1970-01-04T00:00:00.000Z"

NoContext == [present |-> FALSE, units |-> <<>>]

ClassroomContexts ==
    {NoContext, [present |-> TRUE, units |-> <<"u1", "u2">>]}

\* What the user types into the search box.
SearchInputs ==
    {<<>>, <<" ">>, <<"A">>, <<"a", "b">>, <<" ", "a">>}

SortKeys == {"recent", "replies", "created"}

ThreadTypes == {"classroom", "generic"}

\* A thread as the data source supplies it, before it is given its id.
BaseThread ==
    [title |-> <<"x">>, content |-> <<"y">>, authorName |-> <<"z">>,
     tags |-> <<>>, threadType |-> "classroom", unitId |-> "u1",
     category |-> "undefined", isResolved |-> FALSE,
     updatedAt |-> Day1, createdAt |-> Day1, repliesCount |-> 1]

Classroom(unit) ==
    [BaseThread EXCEPT !.threadType = "classroom", !.unitId = unit]

Generic(category) ==
    [BaseThread EXCEPT !.threadType = "generic", !.unitId = "undefined",
                       !.category = category]

\* Threads that differ in the three sort keys; every key has ties and
\* distinct values, and the three orders differ from one another.
SortPool ==
    {[Classroom("u1") EXCEPT !.createdAt = Day1, !.updatedAt = Day1,
                             !.repliesCount = 5],
     [Classroom("u1") EXCEPT !.createdAt = Day1, !.updatedAt = Day2,
                             !.repliesCount = 1],
     [Classroom("u2") EXCEPT !.createdAt = Day2, !.updatedAt = Day3,
                             !.repliesCount = 9],
     [Generic("general") EXCEPT !.createdAt = Day1, !.updatedAt = Day3,
                                !.repliesCount = 1],
     [Generic("general") EXCEPT !.createdAt = Day2, !.updatedAt = Day2,
                                !.repliesCount = 9],
     [Generic("help") EXCEPT !.createdAt = Day1, !.updatedAt = Day1,
                             !.repliesCount = 5]}

\* Threads of both types, each carrying a unit id field and a category
\* field; the title matches the searches "A" and "ab" for half of them.
FilterPool ==
    {[BaseThread EXCEPT !.threadType = type, !.unitId = unit,
                        !.category = category,
                        !.title = IF (unit = "u1") = (category = "general")
                                  THEN <<"x">> ELSE <<"A", "b">>]
        : type \in ThreadTypes, unit \in {"u1", "u2"},
          category \in {"general", "help"}}

\* Threads that differ in the four searched fields; one is resolved and has
\* more replies than the others.
SearchPool ==
    {Classroom("u1"),
     [Classroom("u1") EXCEPT !.title = <<"x", "A", "b">>],
     [Classroom("u2") EXCEPT !.content = <<"b", " ", "a">>],
     [Classroom("u1") EXCEPT !.authorName = <<"a", "B", "z">>],
     [Classroom("u2") EXCEPT !.tags = << <<"x">>, <<"A", "B">> >>],
     [Generic("general") EXCEPT !.tags = << <<"x">>, <<"b">> >>],
     [Generic("help") EXCEPT !.title = <<"A">>, !.isResolved = TRUE,
                             !.repliesCount = 5]}

\* Three threads that differ in type, unit, category, title and in the
\* three sort keys, for "Clear all" after any mix of filters.
ClearPool ==
    {[Classroom("u1") EXCEPT !.title = <<"A", "b">>, !.createdAt = Day1,
                             !.updatedAt = Day2, !.repliesCount = 5],
     [Classroom("u2") EXCEPT !.createdAt = Day2, !.updatedAt = Day3,
                             !.repliesCount = 1],
     [Generic("help") EXCEPT !.title = <<"x", "a">>, !.createdAt = Day3,
                             !.updatedAt = Day1, !.repliesCount = 9]}

WithIds(arr) == [i \in 1..Len(arr) |-> [id |-> i] @@ arr[i]]

ThreadLists(pool) ==
    UNION {[1..n -> pool] : n \in 0..MaxThreads}

(***************************************************************************)
(* ContentItem                                                             *)
(***************************************************************************)
\* ContentType
ContentTypes == {"note", "link", "video", "document"}

\* A slip: documents are in the list of editable types.
canEditAnyType(type) == type \in {"note", "link", "video", "document"}

canEdit(type) == type \in {"note", "link", "video"}

\* A letter, in the strings below.
IsAlpha(c) == c \in {"h", "x"}

\* new URL(s) does not throw: s starts with a scheme, letters up to a colon.
\* No string below has a special scheme (http, file, ...), so what follows
\* the colon is an opaque path, which the parser always accepts.
ParsesAsURL(s) ==
    \E k \in 2..Len(s) :
        /\ s[k] = ":"
        /\ \A j \in 1..(k - 1) : IsAlpha(s[j])

isLinkOrVideo(type) == type = "link" \/ type = "video"

\* A slip: the body is tested for emptiness without trimming it.
validateSaveUntrimmed(type, edited) ==
    IF ~Truthy(edited) THEN "Content cannot be empty"
    ELSE IF isLinkOrVideo(type) /\ Truthy(trim(edited))
              /\ ~ParsesAsURL(trim(edited))
         THEN "Please enter a valid URL"
         ELSE "null"

\* A slip: the URL check is applied whatever the type.
validateSaveUrlForAll(type, edited) ==
    IF ~Truthy(trim(edited)) THEN "Content cannot be empty"
    ELSE IF Truthy(trim(edited)) /\ ~ParsesAsURL(trim(edited))
         THEN "Please enter a valid URL"
         ELSE "null"

\* The outcome of the checks of handleSave before it sends anything.
validateSave(type, edited) ==
    IF ~Truthy(trim(edited)) THEN "Content cannot be empty"
    ELSE IF isLinkOrVideo(type) /\ Truthy(trim(edited))
              /\ ~ParsesAsURL(trim(edited))
         THEN "Please enter a valid URL"
         ELSE "null"

\* The body of the request updateContent(content.id, ...) sends.
updatePayload(type, edited) == [content |-> trim(edited), type |-> type]

RemoveAt(seq, i) == SubSeq(seq, 1, i - 1) \o SubSeq(seq, i + 1, Len(seq))

\* The `content` prop: one item of each type.
ContentItems ==
    {[type |-> "note", content |-> <<"x", " ", "x">>],
     [type |-> "link", content |-> <<"h", ":", "x">>],
     [type |-> "video", content |-> <<"x", ":", "h">>],
     [type |-> "document", content |-> <<"x">>]}

\* What the user types into the edit form.
EditInputs ==
    {<<>>, <<" ">>, <<"x">>, <<" ", "x", " ">>, <<"h", ":", "x">>,
     <<":", "x">>}

\* The state of a ContentItem after its first render.
ItemMounted(c) ==
    /\ content = c
    /\ isExpanded = FALSE
    /\ isDeleting = FALSE
    /\ showDeleteConfirm = FALSE
    /\ isDeleted = FALSE
    /\ deleteSuccess = FALSE
    /\ isEditing = FALSE
    /\ editedContent = c.content
    /\ isSaving = FALSE
    /\ saveSuccess = FALSE
    /\ editError = "null"
    /\ updateRequests = <<>>
    /\ deleteRequests = 0
    /\ saveTimers = 0
    /\ deleteTimers = 0
    /\ updateCalls = 0
    /\ deleteCalls = 0
    /\ refreshCalls = 0

(***************************************************************************)
(* EnhancedNewThreadModal                                                  *)
(***************************************************************************)
TITLE_LIMIT == 150

CONTENT_LIMIT == 2500

\* The ids of the `categories` table.
CategoryIds == {"general", "announcements", "help", "resources"}

\* String.prototype.slice(0, limit)
sliceTo(str, limit) ==
    SubSeq(str, 1, IF Len(str) < limit THEN Len(str) ELSE limit)

\* units.find((unit) => unit.id === selectedUnitId)?.name || ""
unitNameOf(unitList, id) ==
    IF \E i \in 1..Len(unitList) : unitList[i].id = id
    THEN unitList[CHOOSE i \in 1..Len(unitList) :
                     /\ unitList[i].id = id
                     /\ \A j \in 1..(i - 1) : unitList[j].id # id].name
    ELSE ""

\* isValid, as a boolean.
isValid ==
    /\ Truthy(trim(title))
    /\ Truthy(trim(modalContent))
    /\ IF threadType = "classroom"
       THEN selectedUnitId # ""
       ELSE modalSelectedCategory # ""

isContentOverLimit == Len(modalContent) > CONTENT_LIMIT

\* A slip: the submit button without the check of the content limit.
submitDisabledWhenInvalid == ~isValid

submitDisabled == ~isValid \/ isContentOverLimit

\* The checks of handleSubmit before it builds the payload.
passesSubmitChecks ==
    /\ Truthy(trim(title)) /\ Truthy(trim(modalContent))
    /\ ~(threadType = "classroom" /\ selectedUnitId = "")
    /\ ~(threadType = "generic" /\ modalSelectedCategory = "")

\* Array.prototype.includes on the tag list.
tagsInclude(arr, tag) == \E i \in 1..Len(arr) : arr[i] = tag

\* [...new Set(arr)]: the first occurrence of every element, in order.
uniqueInOrder(arr) ==
    LET seen[k \in 0..Len(arr)] ==
            IF k = 0 THEN <<>>
            ELSE IF tagsInclude(seen[k - 1], arr[k])
                 THEN seen[k - 1]
                 ELSE Append(seen[k - 1], arr[k])
    IN  seen[Len(arr)]

\* tags.filter((tag) => tag !== tagToRemove)
withoutTag(arr, tagToRemove) ==
    SelectSeq(arr, LAMBDA tag : tag # tagToRemove)

\* A slip: the tag is looked up as typed, and stored normalised.
tagsAfterAddLooksUpTyped(arr, typed) ==
    IF ~tagsInclude(arr, typed)
    THEN Append(arr, toLowerCase(trim(typed)))
    ELSE arr

\* handleAddTag on Enter with a tag typed: the new tag list.
tagsAfterAdd(arr, typed) ==
    IF ~tagsInclude(arr, toLowerCase(trim(typed)))
    THEN Append(arr, toLowerCase(trim(typed)))
    ELSE arr

\* The tags generateAiSuggestion derives from a body.
autoTags(body) ==
    LET lower == toLowerCase(body)
        pushIf(found, tag) == IF found THEN <<tag>> ELSE <<>>
    IN  pushIf(includes(lower, <<"e", "q", "u", "a", "t", "i", "o", "n">>),
               <<"e", "q", "u", "a", "t", "i", "o", "n", "s">>)
        \o pushIf(includes(lower, <<"g", "r", "a", "p", "h">>),
                  <<"g", "r", "a", "p", "h", "i", "n", "g">>)
        \o pushIf(includes(lower, <<"f", "o", "r", "m", "u", "l", "a">>),
                  <<"f", "o", "r", "m", "u", "l", "a", "s">>)
        \o pushIf(includes(lower, <<"p", "r", "o", "o", "f">>),
                  <<"p", "r", "o", "o", "f", "s">>)

\* The button of the AI assistant.
aiButtonDisabled ==
    \/ ~Truthy(trim(title))
    \/ ~Truthy(trim(modalContent))
    \/ isGeneratingAiSuggestion

\* A slip: the title and the body go into the payload as typed.
baseThreadDataAsTyped ==
    [title |-> title,
     content |-> modalContent,
     authorId |-> "current-user-id",
     authorName |-> "Current User",
     tags |-> tags,
     aiSummary |-> "undefined",
     aiSuggestedAnswer |-> "undefined"]

baseThreadData ==
    [title |-> trim(title),
     content |-> trim(modalContent),
     authorId |-> "current-user-id",
     authorName |-> "Current User",
     tags |-> tags,
     aiSummary |-> "undefined",
     aiSuggestedAnswer |-> "undefined"]

\* The argument of onSubmit.
threadData ==
    IF threadType = "classroom"
    THEN baseThreadData @@
         [threadType |-> "classroom",
          classroomId |-> classroomId,
          classroomName |-> IF classroomName = "undefined"
                            THEN "" ELSE classroomName,
          unitId |-> selectedUnitId,
          unitName |-> unitNameOf(units, selectedUnitId)]
    ELSE baseThreadData @@
         [threadType |-> "generic",
          category |-> modalSelectedCategory,
          visibility |-> visibility,
          allowedRoles |-> IF visibility = "restricted"
                           THEN <<"teacher", "admin">> ELSE "undefined"]

\* The props of the modal.
ModalProps ==
    {[threadType |-> "classroom", classroomId |-> "c1",
      classroomName |-> "Algebra",
      units |-> <<[id |-> "u1", name |-> "Unit 1"],
                  [id |-> "u2", name |-> "Unit 2"]>>],
     [threadType |-> "classroom", classroomId |-> "c1",
      classroomName |-> "undefined", units |-> <<>>],
     [threadType |-> "generic", classroomId |-> "undefined",
      classroomName |-> "undefined", units |-> <<>>]}

\* What the user types into the title and into the body.
TextInputs == {<<>>, <<" ">>, <<"x">>, <<" ", "x", " ">>}

\* A text of n characters.
LongText(n) == [i \in 1..n |-> "x"]

\* Titles typed or pasted: none, a short one, one at the title limit with
\* white space around it and one past the limit.
LongTitleInputs ==
    {<<>>, <<" ", "x", " ">>,
     <<" ">> \o LongText(TITLE_LIMIT - 2) \o <<" ">>,
     LongText(TITLE_LIMIT + 1)}

\* Bodies typed or pasted: none, one at the content limit, one past it,
\* and one past it only by the white space around it.
LongContentInputs ==
    {<<>>, LongText(CONTENT_LIMIT), LongText(CONTENT_LIMIT + 1),
     <<" ">> \o LongText(CONTENT_LIMIT - 1) \o <<" ">>}

\* The state of the modal after its first render.
ModalMounted(props) ==
    /\ threadType = props.threadType
    /\ units = props.units
    /\ classroomId = props.classroomId
    /\ classroomName = props.classroomName
    /\ title = <<>>
    /\ modalContent = <<>>
    /\ selectedUnitId = ""
    /\ modalSelectedCategory = ""
    /\ visibility = "public"
    /\ tags = <<>>
    /\ currentTag = <<>>
    /\ isGeneratingAiSuggestion = FALSE
    /\ showPreview = FALSE
    /\ submitted = <<>>
    /\ aiRequests = <<>>

\* No modal is open beside the thread list or a content item.
NoModal ==
    \E props \in {x \in ModalProps : x.threadType = "generic"} :
        ModalMounted(props)

(***************************************************************************)
(* State machine                                                           *)
(***************************************************************************)
InitWith(pool) ==
    /\ \E arr \in ThreadLists(pool) : supplied = WithIds(arr)
    /\ classroomContext \in ClassroomContexts
    /\ searchQuery = <<>>
    /\ selectedThreadType = "all"
    /\ selectedUnit = "all"
    /\ selectedCategory = "all"
    /\ sortBy = "recent"
    /\ filteredThreads =
          computeFiltered(supplied, <<>>, "all", "all", "all", "recent")
    /\ threads = threadsAfter(supplied, <<>>, "all", "all", "all", "recent")
    /\ threadStats = computeStats(threads)
    /\ \E c \in {x \in ContentItems : x.type = "note"} : ItemMounted(c)
    /\ NoModal

Init == InitWith(SortPool)

InitFilter == InitWith(FilterPool)

InitSearch == InitWith(SearchPool)

InitClear == InitWith(ClearPool)

\* A re-render after a state change: the memoised function runs again.
Render(search, type, unit, category, sort) ==
    /\ searchQuery' = search
    /\ selectedThreadType' = type
    /\ selectedUnit' = unit
    /\ selectedCategory' = category
    /\ sortBy' = sort
    /\ filteredThreads' =
          computeFiltered(threads, search, type, unit, category, sort)
    /\ threads' = threadsAfter(threads, search, type, unit, category, sort)
    /\ UNCHANGED <<supplied, classroomContext, threadStats, itemVars, modalVars>>

SetSearchQuery(q) ==
    /\ showFilters
    /\ q # searchQuery
    /\ Render(q, selectedThreadType, selectedUnit, selectedCategory, sortBy)

SetSelectedThreadType(t) ==
    /\ showFilters
    /\ ~classroomContext.present
    /\ t # selectedThreadType
    /\ Render(searchQuery, t, selectedUnit, selectedCategory, sortBy)

SetSelectedUnit(u) ==
    /\ showFilters
    /\ classroomContext.present
    /\ Len(classroomContext.units) > 0
    /\ u \in {"all"} \cup {classroomContext.units[i] :
                              i \in 1..Len(classroomContext.units)}
    /\ u # selectedUnit
    /\ Render(searchQuery, selectedThreadType, u, selectedCategory, sortBy)

SetSelectedCategory(c) ==
    /\ showFilters
    /\ availableCategories(supplied) # {}
    /\ c \in {"all"} \cup availableCategories(supplied)
    /\ c # selectedCategory
    /\ Render(searchQuery, selectedThreadType, selectedUnit, c, sortBy)

SetSortBy(s) ==
    /\ showFilters
    /\ s # sortBy
    /\ Render(searchQuery, selectedThreadType, selectedUnit,
              selectedCategory, s)

\* A slip: "Clear all" without setSearchQuery("").
ClearAllKeepsSearch ==
    /\ showFilters
    /\ \/ Truthy(searchQuery)
       \/ selectedThreadType # "all"
       \/ selectedUnit # "all"
       \/ selectedCategory # "all"
    /\ Render(searchQuery, "all", "all", "all", sortBy)

ClearAll ==
    /\ showFilters
    /\ \/ Truthy(searchQuery)
       \/ selectedThreadType # "all"
       \/ selectedUnit # "all"
       \/ selectedCategory # "all"
    /\ Render(<<>>, "all", "all", "all", sortBy)

Next ==
    \/ \E q \in SearchInputs : SetSearchQuery(q)
    \/ \E t \in {"all"} \cup ThreadTypes : SetSelectedThreadType(t)
    \/ \E u \in {"all", "u1", "u2"} : SetSelectedUnit(u)
    \/ \E c \in {"all", "general", "help"} : SetSelectedCategory(c)
    \/ \E s \in SortKeys : SetSortBy(s)
    \/ ClearAll

Spec == Init /\ [][Next]_vars

SpecFilter == InitFilter /\ [][Next]_vars

SpecSearch == InitSearch /\ [][Next]_vars

SpecClear == InitClear /\ [][Next]_vars

(***************************************************************************)
(* ContentItem: state machine                                              *)
(***************************************************************************)
\* The thread list plays no part in the behaviour of a ContentItem.
NoThreadsList ==
    /\ supplied = <<>>
    /\ threads = <<>>
    /\ classroomContext = NoContext
    /\ searchQuery = <<>>
    /\ selectedThreadType = "all"
    /\ selectedUnit = "all"
    /\ selectedCategory = "all"
    /\ sortBy = "recent"
    /\ filteredThreads = <<>>
    /\ threadStats = computeStats(<<>>)

InitItem ==
    /\ \E c \in ContentItems : ItemMounted(c)
    /\ NoThreadsList
    /\ NoModal

\* The card with its controls is rendered unless the deletion succeeded.
cardRendered == ~deleteSuccess

\* Click on the header of the card.
ToggleExpanded ==
    /\ cardRendered
    /\ ~isDeleting /\ ~isEditing
    /\ isExpanded' = ~isExpanded
    /\ UNCHANGED <<content, isDeleting, showDeleteConfirm, isDeleted,
                   deleteSuccess, isEditing, editedContent, isSaving,
                   saveSuccess, editError, updateRequests, deleteRequests,
                   saveTimers, deleteTimers, updateCalls, deleteCalls,
                   refreshCalls, threadVars, modalVars>>

\* A slip: handleEdit without setSaveSuccess(false).
ClickEditKeepsBanner ==
    /\ cardRendered
    /\ ~isEditing
    /\ canEdit(content.type)
    /\ ~isDeleting
    /\ isEditing' = TRUE
    /\ editedContent' = content.content
    /\ editError' = "null"
    /\ UNCHANGED <<content, isExpanded, isDeleting, showDeleteConfirm,
                   isDeleted, deleteSuccess, isSaving, saveSuccess,
                   updateRequests, deleteRequests, saveTimers, deleteTimers,
                   updateCalls, deleteCalls, refreshCalls, threadVars, modalVars>>

\* Click on Edit: handleEdit.
ClickEdit ==
    /\ cardRendered
    /\ ~isEditing
    /\ canEdit(content.type)
    /\ ~isDeleting
    /\ isEditing' = TRUE
    /\ editedContent' = content.content
    /\ editError' = "null"
    /\ saveSuccess' = FALSE
    /\ UNCHANGED <<content, isExpanded, isDeleting, showDeleteConfirm,
                   isDeleted, deleteSuccess, isSaving, updateRequests,
                   deleteRequests, saveTimers, deleteTimers, updateCalls,
                   deleteCalls, refreshCalls, threadVars, modalVars>>

\* Click on Cancel in the edit form: handleCancelEdit.
ClickCancelEdit ==
    /\ cardRendered
    /\ isEditing
    /\ ~isSaving
    /\ isEditing' = FALSE
    /\ editedContent' = content.content
    /\ editError' = "null"
    /\ UNCHANGED <<content, isExpanded, isDeleting, showDeleteConfirm,
                   isDeleted, deleteSuccess, isSaving, saveSuccess,
                   updateRequests, deleteRequests, saveTimers, deleteTimers,
                   updateCalls, deleteCalls, refreshCalls, threadVars, modalVars>>

\* Typing into the edit form, which a save in flight does not disable.
ChangeEditedContent(v) ==
    /\ cardRendered
    /\ isEditing
    /\ canEdit(content.type)
    /\ v # editedContent
    /\ editedContent' = v
    /\ UNCHANGED <<content, isExpanded, isDeleting, showDeleteConfirm,
                   isDeleted, deleteSuccess, isEditing, isSaving,
                   saveSuccess, editError, updateRequests, deleteRequests,
                   saveTimers, deleteTimers, updateCalls, deleteCalls,
                   refreshCalls, threadVars, modalVars>>

\* A slip: Save and Cancel without the disabled attribute.
saveNeverDisabled == FALSE

saveDisabled == isSaving

\* Click on Save: handleSave up to its await.
ClickSave ==
    /\ cardRendered
    /\ isEditing
    /\ ~saveDisabled
    /\ LET verdict == validateSave(content.type, editedContent)
       IN  IF verdict # "null"
           THEN /\ editError' = verdict
                /\ UNCHANGED <<isSaving, updateRequests, updateCalls>>
           ELSE /\ updateCalls + deleteCalls < MaxRequests
                /\ isSaving' = TRUE
                /\ editError' = "null"
                /\ updateRequests' =
                      Append(updateRequests,
                             updatePayload(content.type, editedContent))
                /\ updateCalls' = updateCalls + 1
    /\ UNCHANGED <<content, isExpanded, isDeleting, showDeleteConfirm,
                   isDeleted, deleteSuccess, isEditing, editedContent,
                   saveSuccess, deleteRequests, saveTimers, deleteTimers,
                   deleteCalls, refreshCalls, threadVars, modalVars>>

\* updateContent resolves: the rest of the try block, then finally.
UpdateSucceeds(i) ==
    /\ i \in 1..Len(updateRequests)
    /\ updateRequests' = RemoveAt(updateRequests, i)
    /\ saveSuccess' = TRUE
    /\ isEditing' = FALSE
    /\ saveTimers' = saveTimers + 1
    /\ isSaving' = FALSE
    /\ UNCHANGED <<content, isExpanded, isDeleting, showDeleteConfirm,
                   isDeleted, deleteSuccess, editedContent, editError,
                   deleteRequests, deleteTimers, updateCalls, deleteCalls,
                   refreshCalls, threadVars, modalVars>>

\* A slip: the catch block sends the request once more.
UpdateFailsRetries(i) ==
    /\ i \in 1..Len(updateRequests)
    /\ updateCalls + deleteCalls < MaxRequests
    /\ updateRequests' =
          Append(RemoveAt(updateRequests, i), updateRequests[i])
    /\ updateCalls' = updateCalls + 1
    /\ editError' = "Failed to save changes. Please try again."
    /\ UNCHANGED <<content, isExpanded, isDeleting, showDeleteConfirm,
                   isDeleted, deleteSuccess, isEditing, editedContent,
                   isSaving, saveSuccess, deleteRequests, saveTimers,
                   deleteTimers, deleteCalls, refreshCalls, threadVars, modalVars>>

\* updateContent rejects: the catch block, then finally.
UpdateFails(i) ==
    /\ i \in 1..Len(updateRequests)
    /\ updateRequests' = RemoveAt(updateRequests, i)
    /\ editError' = "Failed to save changes. Please try again."
    /\ isSaving' = FALSE
    /\ UNCHANGED <<content, isExpanded, isDeleting, showDeleteConfirm,
                   isDeleted, deleteSuccess, isEditing, editedContent,
                   saveSuccess, deleteRequests, saveTimers, deleteTimers,
                   updateCalls, deleteCalls, refreshCalls, threadVars, modalVars>>

\* The timer set after a successful save fires.
SaveTimerFires ==
    /\ saveTimers > 0
    /\ saveTimers' = saveTimers - 1
    /\ saveSuccess' = FALSE
    /\ refreshCalls' = refreshCalls + 1
    /\ UNCHANGED <<content, isExpanded, isDeleting, showDeleteConfirm,
                   isDeleted, deleteSuccess, isEditing, editedContent,
                   isSaving, editError, updateRequests, deleteRequests,
                   deleteTimers, updateCalls, deleteCalls, threadVars, modalVars>>


\* The Delete button, and the confirm and cancel buttons that replace it,
\* belong to the controls shown outside edit mode.
deleteControlsDisabled == isDeleting

\* Click on Delete: the confirmation is shown.
ClickDelete ==
    /\ cardRendered
    /\ ~isEditing
    /\ ~showDeleteConfirm
    /\ ~deleteControlsDisabled
    /\ showDeleteConfirm' = TRUE
    /\ UNCHANGED <<content, isExpanded, isDeleting, isDeleted, deleteSuccess,
                   isEditing, editedContent, isSaving, saveSuccess,
                   editError, updateRequests, deleteRequests, saveTimers,
                   deleteTimers, updateCalls, deleteCalls, refreshCalls,
                   threadVars, modalVars>>

\* Click on Cancel in the confirmation: handleCancelDelete.
ClickCancelDelete ==
    /\ cardRendered
    /\ ~isEditing
    /\ showDeleteConfirm
    /\ ~deleteControlsDisabled
    /\ showDeleteConfirm' = FALSE
    /\ UNCHANGED <<content, isExpanded, isDeleting, isDeleted, deleteSuccess,
                   isEditing, editedContent, isSaving, saveSuccess,
                   editError, updateRequests, deleteRequests, saveTimers,
                   deleteTimers, updateCalls, deleteCalls, refreshCalls,
                   threadVars, modalVars>>

\* A slip: the confirmation is rendered in edit mode too.
ClickConfirmDeleteInEditMode ==
    /\ cardRendered
    /\ showDeleteConfirm
    /\ ~deleteControlsDisabled
    /\ updateCalls + deleteCalls < MaxRequests
    /\ isDeleting' = TRUE
    /\ deleteRequests' = deleteRequests + 1
    /\ deleteCalls' = deleteCalls + 1
    /\ UNCHANGED <<content, isExpanded, showDeleteConfirm, isDeleted,
                   deleteSuccess, isEditing, editedContent, isSaving,
                   saveSuccess, editError, updateRequests, saveTimers,
                   deleteTimers, updateCalls, refreshCalls, threadVars, modalVars>>

\* Click on Delete in the confirmation: handleDelete up to its await.
ClickConfirmDelete ==
    /\ cardRendered
    /\ ~isEditing
    /\ showDeleteConfirm
    /\ ~deleteControlsDisabled
    /\ updateCalls + deleteCalls < MaxRequests
    /\ isDeleting' = TRUE
    /\ deleteRequests' = deleteRequests + 1
    /\ deleteCalls' = deleteCalls + 1
    /\ UNCHANGED <<content, isExpanded, showDeleteConfirm, isDeleted,
                   deleteSuccess, isEditing, editedContent, isSaving,
                   saveSuccess, editError, updateRequests, saveTimers,
                   deleteTimers, updateCalls, refreshCalls, threadVars, modalVars>>

\* A slip: onRefresh is called at once and again by the timer.
DeleteSucceedsRefreshesAtOnce ==
    /\ deleteRequests > 0
    /\ deleteRequests' = deleteRequests - 1
    /\ deleteSuccess' = TRUE
    /\ isDeleted' = TRUE
    /\ deleteTimers' = deleteTimers + 1
    /\ refreshCalls' = refreshCalls + 1
    /\ UNCHANGED <<content, isExpanded, isDeleting, showDeleteConfirm,
                   isEditing, editedContent, isSaving, saveSuccess,
                   editError, updateRequests, saveTimers, updateCalls,
                   deleteCalls, threadVars, modalVars>>

\* deleteContent resolves: the rest of the try block.
DeleteSucceeds ==
    /\ deleteRequests > 0
    /\ deleteRequests' = deleteRequests - 1
    /\ deleteSuccess' = TRUE
    /\ isDeleted' = TRUE
    /\ deleteTimers' = deleteTimers + 1
    /\ UNCHANGED <<content, isExpanded, isDeleting, showDeleteConfirm,
                   isEditing, editedContent, isSaving, saveSuccess,
                   editError, updateRequests, saveTimers, updateCalls,
                   deleteCalls, refreshCalls, threadVars, modalVars>>

\* A slip: the catch block without setIsDeleting(false).
DeleteFailsKeepsDeleting ==
    /\ deleteRequests > 0
    /\ deleteRequests' = deleteRequests - 1
    /\ showDeleteConfirm' = FALSE
    /\ UNCHANGED <<content, isExpanded, isDeleting, isDeleted, deleteSuccess,
                   isEditing, editedContent, isSaving, saveSuccess,
                   editError, updateRequests, saveTimers, deleteTimers,
                   updateCalls, deleteCalls, refreshCalls, threadVars, modalVars>>

\* deleteContent rejects: the catch block.
DeleteFails ==
    /\ deleteRequests > 0
    /\ deleteRequests' = deleteRequests - 1
    /\ isDeleting' = FALSE
    /\ showDeleteConfirm' = FALSE
    /\ UNCHANGED <<content, isExpanded, isDeleted, deleteSuccess, isEditing,
                   editedContent, isSaving, saveSuccess, editError,
                   updateRequests, saveTimers, deleteTimers, updateCalls,
                   deleteCalls, refreshCalls, threadVars, modalVars>>

\* The timer set after a successful deletion fires.
DeleteTimerFires ==
    /\ deleteTimers > 0
    /\ deleteTimers' = deleteTimers - 1
    /\ refreshCalls' = refreshCalls + 1
    /\ UNCHANGED <<content, isExpanded, isDeleting, showDeleteConfirm,
                   isDeleted, deleteSuccess, isEditing, editedContent,
                   isSaving, saveSuccess, editError, updateRequests,
                   deleteRequests, saveTimers, updateCalls, deleteCalls,
                   threadVars, modalVars>>

NextItem ==
    \/ ToggleExpanded
    \/ ClickEdit
    \/ ClickCancelEdit
    \/ \E v \in EditInputs : ChangeEditedContent(v)
    \/ ClickSave
    \/ \E i \in 1..MaxRequests : UpdateSucceeds(i)
    \/ \E i \in 1..MaxRequests : UpdateFails(i)
    \/ SaveTimerFires
    \/ ClickDelete
    \/ ClickCancelDelete
    \/ ClickConfirmDelete
    \/ DeleteSucceeds
    \/ DeleteFails
    \/ DeleteTimerFires

SpecItem == InitItem /\ [][NextItem]_vars

(***************************************************************************)
(* EnhancedNewThreadModal: state machine                                   *)
(***************************************************************************)
InitModal ==
    /\ \E props \in ModalProps : ModalMounted(props)
    /\ NoThreadsList
    /\ \E c \in {x \in ContentItems : x.type = "note"} : ItemMounted(c)

\* Typing into the title input.
SetTitle(v) ==
    /\ sliceTo(v, TITLE_LIMIT) # title
    /\ title' = sliceTo(v, TITLE_LIMIT)
    /\ UNCHANGED <<threadType, units, classroomId, classroomName,
                   modalContent, selectedUnitId, modalSelectedCategory,
                   visibility, tags, currentTag, isGeneratingAiSuggestion,
                   showPreview, submitted, aiRequests,
                   threadVars, itemVars>>

\* Typing into the body, which is shown unless the preview is.
SetContent(v) ==
    /\ ~showPreview
    /\ v # modalContent
    /\ modalContent' = v
    /\ UNCHANGED <<threadType, units, classroomId, classroomName, title,
                   selectedUnitId, modalSelectedCategory, visibility, tags,
                   currentTag, isGeneratingAiSuggestion, showPreview,
                   submitted, aiRequests,
                   threadVars, itemVars>>

\* The unit select of a classroom thread: "" or the id of a unit.
SetSelectedUnitId(u) ==
    /\ threadType = "classroom"
    /\ u \in {""} \cup {units[i].id : i \in 1..Len(units)}
    /\ u # selectedUnitId
    /\ selectedUnitId' = u
    /\ UNCHANGED <<threadType, units, classroomId, classroomName, title,
                   modalContent, modalSelectedCategory, visibility, tags,
                   currentTag, isGeneratingAiSuggestion, showPreview,
                   submitted, aiRequests,
                   threadVars, itemVars>>

\* The category select of a generic thread: "" or the id of a category.
SetModalSelectedCategory(c) ==
    /\ threadType = "generic"
    /\ c \in {""} \cup CategoryIds
    /\ c # modalSelectedCategory
    /\ modalSelectedCategory' = c
    /\ UNCHANGED <<threadType, units, classroomId, classroomName, title,
                   modalContent, selectedUnitId, visibility, tags,
                   currentTag, isGeneratingAiSuggestion, showPreview,
                   submitted, aiRequests,
                   threadVars, itemVars>>

\* The visibility radio buttons of a generic thread.
SetVisibility(v) ==
    /\ threadType = "generic"
    /\ v \in {"public", "restricted"}
    /\ v # visibility
    /\ visibility' = v
    /\ UNCHANGED <<threadType, units, classroomId, classroomName, title,
                   modalContent, selectedUnitId, modalSelectedCategory,
                   tags, currentTag, isGeneratingAiSuggestion, showPreview,
                   submitted, aiRequests,
                   threadVars, itemVars>>

\* Click on Preview or Edit above the body.
TogglePreview ==
    /\ showPreview' = ~showPreview
    /\ UNCHANGED <<threadType, units, classroomId, classroomName, title,
                   modalContent, selectedUnitId, modalSelectedCategory,
                   visibility, tags, currentTag, isGeneratingAiSuggestion,
                   submitted, aiRequests,
                   threadVars, itemVars>>

\* The form is submitted through its submit button, which the browser
\* lets neither a click nor the Enter key use while it is disabled:
\* handleSubmit.
SubmitForm ==
    /\ ~submitDisabled
    /\ Len(submitted) < MaxSubmits
    /\ IF passesSubmitChecks
       THEN submitted' = Append(submitted, threadData)
       ELSE UNCHANGED submitted
    /\ UNCHANGED <<threadType, units, classroomId, classroomName, title,
                   modalContent, selectedUnitId, modalSelectedCategory,
                   visibility, tags, currentTag, isGeneratingAiSuggestion,
                   showPreview, aiRequests,
                   threadVars, itemVars>>

NextModal ==
    \/ \E v \in TextInputs : SetTitle(v)
    \/ \E v \in TextInputs : SetContent(v)
    \/ \E u \in {"", "u1", "u2"} : SetSelectedUnitId(u)
    \/ \E c \in {""} \cup CategoryIds : SetModalSelectedCategory(c)
    \/ \E v \in {"public", "restricted"} : SetVisibility(v)
    \/ SubmitForm

SpecModal == InitModal /\ [][NextModal]_vars

\* The same form with titles and bodies at and past the limits.
NextLimits ==
    \/ \E v \in LongTitleInputs : SetTitle(v)
    \/ \E v \in LongContentInputs : SetContent(v)
    \/ TogglePreview
    \/ \E u \in {"", "u1"} : SetSelectedUnitId(u)
    \/ \E c \in {"", "help"} : SetModalSelectedCategory(c)
    \/ SubmitForm

SpecLimits == InitModal /\ [][NextLimits]_vars

(***************************************************************************)
(* EnhancedNewThreadModal: the tag list and the AI assistant               *)
(***************************************************************************)
\* Typing into the tag input.
SetCurrentTag(v) ==
    /\ v # currentTag
    /\ currentTag' = v
    /\ UNCHANGED <<threadType, units, classroomId, classroomName, title,
                   modalContent, selectedUnitId, modalSelectedCategory,
                   visibility, tags, isGeneratingAiSuggestion, showPreview,
                   submitted, aiRequests, threadVars, itemVars>>

\* Enter in the tag input: handleAddTag.  With no tag typed the handler
\* does nothing and the key is left to the form.
PressEnterInTagInput ==
    /\ IF Truthy(trim(currentTag))
       THEN /\ tags' = tagsAfterAdd(tags, currentTag)
            /\ currentTag' = <<>>
       ELSE UNCHANGED <<tags, currentTag>>
    /\ UNCHANGED <<threadType, units, classroomId, classroomName, title,
                   modalContent, selectedUnitId, modalSelectedCategory,
                   visibility, isGeneratingAiSuggestion, showPreview,
                   submitted, aiRequests, threadVars, itemVars>>

\* Click on the cross of a tag of the list: removeTag.
RemoveTag(tagToRemove) ==
    /\ tagsInclude(tags, tagToRemove)
    /\ tags' = withoutTag(tags, tagToRemove)
    /\ UNCHANGED <<threadType, units, classroomId, classroomName, title,
                   modalContent, selectedUnitId, modalSelectedCategory,
                   visibility, currentTag, isGeneratingAiSuggestion,
                   showPreview, submitted, aiRequests, threadVars, itemVars>>

\* Click on "Get AI Suggestions": generateAiSuggestion up to its await.
\* The call keeps the title, the body and the tags of this render.
ClickAiSuggestion ==
    /\ ~aiButtonDisabled
    /\ Truthy(trim(title)) /\ Truthy(trim(modalContent))
    /\ isGeneratingAiSuggestion' = TRUE
    /\ aiRequests' = Append(aiRequests,
                            [title |-> title, content |-> modalContent,
                             tags |-> tags])
    /\ UNCHANGED <<threadType, units, classroomId, classroomName, title,
                   modalContent, selectedUnitId, modalSelectedCategory,
                   visibility, tags, currentTag, showPreview, submitted,
                   threadVars, itemVars>>

\* A slip: setTags([...new Set([...tags, ...autoTags])]) with the tags of
\* the render in which the suggestion was requested.
AiSuggestionCompletesOnSnapshot ==
    /\ aiRequests # <<>>
    /\ aiRequests' = Tail(aiRequests)
    /\ tags' = uniqueInOrder(Head(aiRequests).tags
                                \o autoTags(Head(aiRequests).content))
    /\ isGeneratingAiSuggestion' = FALSE
    /\ UNCHANGED <<threadType, units, classroomId, classroomName, title,
                   modalContent, selectedUnitId, modalSelectedCategory,
                   visibility, currentTag, showPreview, submitted,
                   threadVars, itemVars>>

\* The two seconds of the oldest call are over: the rest of
\* generateAiSuggestion.  The body is the one the call kept, the tag list
\* the current one.
AiSuggestionCompletes ==
    /\ aiRequests # <<>>
    /\ aiRequests' = Tail(aiRequests)
    /\ tags' = uniqueInOrder(tags \o autoTags(Head(aiRequests).content))
    /\ isGeneratingAiSuggestion' = FALSE
    /\ UNCHANGED <<threadType, units, classroomId, classroomName, title,
                   modalContent, selectedUnitId, modalSelectedCategory,
                   visibility, currentTag, showPreview, submitted,
                   threadVars, itemVars>>

\* Tags typed: one that a body generates too, in another case and with
\* white space around it, one of the user's own, and white space only.
TagInputs ==
    {<<" ">>,
     <<" ", "g", "r", "A", "p", "h", "i", "n", "g", " ">>,
     <<"A", "b">>}

\* Bodies that generate one tag, two tags and none.
TagBodyInputs ==
    {<<"g", "r", "A", "p", "h">>,
     <<"p", "r", "o", "o", "f", " ", "g", "r", "a", "p", "h">>,
     <<"x">>}

\* The tags these inputs can put into the list.
TagTexts ==
    {toLowerCase(trim(v)) : v \in {w \in TagInputs : Truthy(trim(w))}}
        \cup UNION {{autoTags(b)[k] : k \in 1..Len(autoTags(b))}
                       : b \in TagBodyInputs}

NextTags ==
    \/ \E v \in {<<>>, <<"x">>} : SetTitle(v)
    \/ \E v \in TagBodyInputs : SetContent(v)
    \/ \E v \in TagInputs : SetCurrentTag(v)
    \/ PressEnterInTagInput
    \/ \E t \in TagTexts : RemoveTag(t)
    \/ ClickAiSuggestion
    \/ AiSuggestionCompletes

SpecTags == InitModal /\ [][NextTags]_vars

(***************************************************************************)
(* Properties                                                              *)
(***************************************************************************)
anyFilterActive ==
    ~aliasesInput(searchQuery, selectedThreadType, selectedUnit,
                  selectedCategory)

\* C1: the filter/sort computation leaves the thread list it is given as it
\* is: no render changes the records or the order of the `threads` array.
C1_InputNotMutated == [][threads' = threads]_vars

\* C2: whatever renders came before, the output equals what a fresh
\* computation on the list as originally supplied gives for the current
\* query state.
C2_SameAsFreshComputation ==
    filteredThreads =
        computeFiltered(supplied, searchQuery, selectedThreadType,
                        selectedUnit, selectedCategory, sortBy)

(***************************************************************************)
(* Vocabulary of the properties                                            *)
(***************************************************************************)
Records(arr) == {arr[i] : i \in 1..Len(arr)}

Occurrences(arr, r) == Cardinality({i \in 1..Len(arr) : arr[i] = r})

PositionOf(arr, r) == CHOOSE i \in 1..Len(arr) : arr[i] = r

allSelectorsAll ==
    /\ selectedThreadType = "all"
    /\ selectedUnit = "all"
    /\ selectedCategory = "all"

\* C3: every record of the output is a record of the supplied list, and no
\* record occurs more often in the output than in the supplied list.
C3_OutputWithinInput ==
    \A i \in 1..Len(filteredThreads) :
        /\ filteredThreads[i] \in Records(supplied)
        /\ Occurrences(filteredThreads, filteredThreads[i])
              <= Occurrences(supplied, filteredThreads[i])

\* C3 witness: a filter is active and the output is a non-empty proper part
\* of a list of MaxThreads threads.
C3_Witness ==
    /\ anyFilterActive
    /\ Len(supplied) = MaxThreads
    /\ Len(filteredThreads) > 0
    /\ Len(filteredThreads) < Len(supplied)

\* The value a sort key orders by.
SortValue(thread, sort) ==
    CASE sort = "recent"  -> getTime(thread.updatedAt)
      [] sort = "replies" -> thread.repliesCount
      [] sort = "created" -> getTime(thread.createdAt)

ReplyCounts(arr) == [i \in 1..Len(arr) |-> arr[i].repliesCount]

\* C4: the output is ordered non-increasingly by the value of the active
\* sort key, and three threads supplied with reply counts 5, 1, 9 come out
\* with reply counts 9, 5, 1 under the key `replies`.
C4_SortedDescending ==
    /\ \A i, j \in 1..Len(filteredThreads) :
          i < j => SortValue(filteredThreads[i], sortBy)
                     >= SortValue(filteredThreads[j], sortBy)
    /\ (/\ ReplyCounts(supplied) = <<5, 1, 9>>
        /\ sortBy = "replies"
        /\ ~anyFilterActive) => ReplyCounts(filteredThreads) = <<9, 5, 1>>

\* C4 witness: the example of the claim, sorted by `replies`.
C4_Witness ==
    /\ ReplyCounts(supplied) = <<5, 1, 9>>
    /\ sortBy = "replies"
    /\ ~anyFilterActive
    /\ ReplyCounts(filteredThreads) = <<9, 5, 1>>

\* Threads that tie on the sort key stand in `out` in the relative order
\* they have in `in`.
TiesKeepOrder(out, in, sort) ==
    \A i, j \in 1..Len(out) :
        (i < j /\ SortValue(out[i], sort) = SortValue(out[j], sort))
            => PositionOf(in, out[i]) < PositionOf(in, out[j])

\* C5: the sort is stable: in every render two threads of the output that
\* tie on the active sort key stand in the relative order they have in the
\* supplied thread list.
C5_StableSort == TiesKeepOrder(filteredThreads, supplied, sortBy)

\* Two characters that are equal up to letter case.
SameLetter(c, d) ==
    \/ c = d
    \/ {c, d} = {"a", "A"}
    \/ {c, d} = {"b", "B"}

\* q occurs in s at some offset, letter case ignored.
CaseInsensitiveSubstring(q, s) ==
    \E off \in 0..(Len(s) - Len(q)) :
        \A k \in 1..Len(q) : SameLetter(q[k], s[off + k])

\* The query occurs in the title, the body, the author name or a tag.
TextFound(thread, q) ==
    \/ CaseInsensitiveSubstring(q, thread.title)
    \/ CaseInsensitiveSubstring(q, thread.content)
    \/ CaseInsensitiveSubstring(q, thread.authorName)
    \/ \E k \in 1..Len(thread.tags) :
          CaseInsensitiveSubstring(q, thread.tags[k])

\* The query is empty or consists of white space only.
Blank(q) == \A k \in 1..Len(q) : q[k] = " "

PassesSearch(thread) == Blank(searchQuery) \/ TextFound(thread, searchQuery)

PassesType(thread) ==
    selectedThreadType = "all" \/ thread.threadType = selectedThreadType

PassesUnit(thread) ==
    \/ selectedUnit = "all"
    \/ (thread.threadType = "classroom" /\ thread.unitId = selectedUnit)

PassesCategory(thread) ==
    \/ selectedCategory = "all"
    \/ (thread.threadType = "generic" /\ thread.category = selectedCategory)

\* C6: a supplied thread is in the output if and only if it passes every
\* active filter: the text search, the thread type (equality on the type
\* tag), the unit and the category.
C6_AllActiveFilters ==
    \A i \in 1..Len(supplied) :
        supplied[i] \in Records(filteredThreads)
            <=> (/\ PassesSearch(supplied[i])
                 /\ PassesType(supplied[i])
                 /\ PassesUnit(supplied[i])
                 /\ PassesCategory(supplied[i]))

\* C6 witness: a search and a category are both active; one thread fails
\* only the search, another fails only the category, a third is shown.
C6_Witness ==
    /\ ~Blank(searchQuery)
    /\ selectedCategory # "all"
    /\ Len(filteredThreads) = 1
    /\ \E i, j \in 1..Len(supplied) :
          /\ ~PassesSearch(supplied[i]) /\ PassesCategory(supplied[i])
          /\ PassesSearch(supplied[j]) /\ ~PassesCategory(supplied[j])

\* C7: with a unit selected, every thread of the output is a classroom
\* thread of that unit; a generic thread is left out even when its unit id
\* field equals the selected unit.
C7_UnitOnlyClassroom ==
    selectedUnit # "all" =>
        /\ \A i \in 1..Len(filteredThreads) :
              /\ filteredThreads[i].threadType = "classroom"
              /\ filteredThreads[i].unitId = selectedUnit
        /\ \A i \in 1..Len(supplied) :
              supplied[i].threadType = "generic"
                  => supplied[i] \notin Records(filteredThreads)

\* C7 witness: a unit is selected, the list mixes a generic thread whose
\* unit id field is that unit with classroom threads, and a thread is shown.
C7_Witness ==
    /\ selectedUnit # "all"
    /\ Len(filteredThreads) > 0
    /\ \E i, j \in 1..Len(supplied) :
          /\ supplied[i].threadType = "generic"
          /\ supplied[i].unitId = selectedUnit
          /\ supplied[j].threadType = "classroom"
          /\ supplied[j].unitId # selectedUnit

\* C8: with a category selected, every thread of the output is a generic
\* thread of that category; a classroom thread is left out even when its
\* category field equals the selected category.
C8_CategoryOnlyGeneric ==
    selectedCategory # "all" =>
        /\ \A i \in 1..Len(filteredThreads) :
              /\ filteredThreads[i].threadType = "generic"
              /\ filteredThreads[i].category = selectedCategory
        /\ \A i \in 1..Len(supplied) :
              supplied[i].threadType = "classroom"
                  => supplied[i] \notin Records(filteredThreads)

\* C8 witness: a category is selected, the list mixes a classroom thread
\* whose category field is that category with generic threads, and a thread
\* is shown.
C8_Witness ==
    /\ selectedCategory # "all"
    /\ Len(filteredThreads) > 0
    /\ \E i, j \in 1..Len(supplied) :
          /\ supplied[i].threadType = "classroom"
          /\ supplied[i].category = selectedCategory
          /\ supplied[j].threadType = "generic"
          /\ supplied[j].category # selectedCategory

\* What a render shows when its search string is blank: every thread of the
\* list when the selectors are at "all", and in any case the output the
\* empty search string gives.
BlankSearchIsIdentity(out, in, search, type, unit, category, sort) ==
    Blank(search) =>
        /\ (type = "all" /\ unit = "all" /\ category = "all")
              => Records(in) \subseteq Records(out)
        /\ out = computeFiltered(in, <<>>, type, unit, category, sort)

\* C9: an empty or white-space-only search string filters nothing, in the
\* first render and in every later one: with the selectors at "all" every
\* thread of the list is shown, and with selectors active the output is the
\* one the empty search string gives.
C9_BlankSearchIdentity ==
    /\ BlankSearchIsIdentity(filteredThreads, supplied, searchQuery,
                             selectedThreadType, selectedUnit,
                             selectedCategory, sortBy)
    /\ [][BlankSearchIsIdentity(filteredThreads', threads, searchQuery',
                                selectedThreadType', selectedUnit',
                                selectedCategory', sortBy')]_vars

\* C9 witness: the search string is a single space, a thread type is
\* selected, and the output holds a thread no searched field of which
\* contains a space.
C9_Witness ==
    /\ searchQuery = <<" ">>
    /\ selectedThreadType # "all"
    /\ \E i \in 1..Len(filteredThreads) :
          ~TextFound(filteredThreads[i], searchQuery)

\* C10: with a non-blank search string, a thread that passes the selectors
\* is in the output if and only if the string occurs, letter case ignored,
\* in its title, its body, its author name or one of its tags.
C10_TextSearch ==
    ~Blank(searchQuery) =>
        \A i \in 1..Len(supplied) :
            (/\ PassesType(supplied[i])
             /\ PassesUnit(supplied[i])
             /\ PassesCategory(supplied[i]))
                => (supplied[i] \in Records(filteredThreads)
                      <=> TextFound(supplied[i], searchQuery))

\* C10 witness: the search string "A" finds one thread by a lower-case
\* letter of a tag only and leaves out a thread that has no "a" anywhere.
C10_Witness ==
    /\ searchQuery = <<"A">>
    /\ allSelectorsAll
    /\ \E i \in 1..Len(filteredThreads) :
          /\ ~CaseInsensitiveSubstring(searchQuery, filteredThreads[i].title)
          /\ ~CaseInsensitiveSubstring(searchQuery,
                                       filteredThreads[i].content)
          /\ ~CaseInsensitiveSubstring(searchQuery,
                                       filteredThreads[i].authorName)
    /\ Len(filteredThreads) < Len(supplied)

\* The statistics of a list, counted thread by thread.
CountedStats(arr) ==
    LET Count(S) == Cardinality(S)
        idx == 1..Len(arr)
    IN  [total |-> Count(idx),
         resolved |-> Count({i \in idx : arr[i].isResolved}),
         open |-> Count(idx) - Count({i \in idx : arr[i].isResolved}),
         classroom |-> Count({i \in idx : arr[i].threadType = "classroom"}),
         generic |-> Count({i \in idx : arr[i].threadType = "generic"})]

\* C20: the statistics shown are those of the whole supplied list, whatever
\* the filters and the order of the list: total is its length, resolved the
\* number of resolved threads, open is total minus resolved, classroom and
\* generic the number of threads of each type.
C20_StatsOverSuppliedList ==
    /\ threadStats = CountedStats(supplied)
    /\ threadStats = CountedStats(threads)
    /\ threadStats.open = threadStats.total - threadStats.resolved

\* C20 witness: a search leaves out some threads of a list that holds a
\* resolved thread, an open one and threads of both types, and that the
\* sort has reordered.
C20_Witness ==
    /\ anyFilterActive
    /\ Len(filteredThreads) < Len(supplied)
    /\ threads # supplied
    /\ threadStats.resolved > 0
    /\ threadStats.open > 0
    /\ threadStats.classroom > 0
    /\ threadStats.generic > 0

\* C26: "Clear all" empties the search text, sets the three selectors to
\* "all" and keeps the sort key; the output it leaves holds every thread of
\* the supplied list once, in non-increasing order of that sort key.
C26_ClearAllResets ==
    [][ClearAll =>
          /\ searchQuery' = <<>>
          /\ selectedThreadType' = "all"
          /\ selectedUnit' = "all"
          /\ selectedCategory' = "all"
          /\ sortBy' = sortBy
          /\ Len(filteredThreads') = Len(supplied)
          /\ \A i \in 1..Len(supplied) :
                Occurrences(filteredThreads', supplied[i])
                    = Occurrences(supplied, supplied[i])
          /\ \A i, j \in 1..Len(filteredThreads') :
                i < j => SortValue(filteredThreads'[i], sortBy)
                           >= SortValue(filteredThreads'[j], sortBy)]_vars

\* C26 witness: "Clear all" is offered while a search text and a thread
\* type leave a part of a full list that is sorted by replies.
C26_Witness ==
    /\ Truthy(searchQuery)
    /\ selectedThreadType # "all"
    /\ sortBy = "replies"
    /\ Len(supplied) = MaxThreads
    /\ Len(filteredThreads) > 0
    /\ Len(filteredThreads) < Len(supplied)

(***************************************************************************)
(* Properties of ContentItem                                               *)
(***************************************************************************)
updateInFlight == updateRequests # <<>>

deleteInFlight == deleteRequests > 0

requestsSent == updateCalls + deleteCalls

\* Some update request settles in this step.
UpdateSettles == Len(updateRequests') < Len(updateRequests)

\* Some delete request settles in this step.
DeleteSettles == deleteRequests' < deleteRequests

\* While an update request is in flight the edit form is shown with Save
\* and Cancel disabled, and the saving flag is set for no other reason.
SaveGuarded ==
    /\ Len(updateRequests) <= 1
    /\ updateInFlight => (isEditing /\ isSaving /\ saveDisabled)
    /\ isSaving => updateInFlight

\* C11: while a save request is in flight Save and Cancel are disabled, so
\* at most one save request is in flight; when it settles, with success or
\* with failure, the saving flag is cleared and either Save is enabled again
\* or the edit form is closed.
C11_SaveInFlight ==
    /\ SaveGuarded
    /\ [][/\ SaveGuarded'
          /\ UpdateSettles =>
                (~isSaving' /\ (~isEditing' \/ ~saveDisabled'))]_vars

\* C11 witness: a first save request has settled and, Save being enabled
\* again, a second one is in flight.
C11_Witness ==
    /\ updateCalls = 2
    /\ Len(updateRequests) = 1
    /\ isSaving

\* While a delete request is in flight the controls are disabled, and they
\* are disabled for no other reason unless the deletion has succeeded.
DeleteGuarded ==
    /\ deleteRequests <= 1
    /\ deleteInFlight => (isDeleting /\ deleteControlsDisabled)
    /\ (isDeleting /\ ~deleteInFlight) => deleteSuccess

\* C12: while a delete request is in flight the controls are disabled, so
\* at most one delete request is in flight; when it settles the component
\* is in the deleted-success state or has the deleting flag cleared and the
\* controls enabled; it is never disabled without being in that state.
C12_DeleteInFlight ==
    /\ DeleteGuarded
    /\ [][/\ DeleteGuarded'
          /\ DeleteSettles =>
                (deleteSuccess' \/ (~isDeleting' /\ ~deleteControlsDisabled'))
       ]_vars

\* C12 witness: a first delete request has failed and, the controls being
\* enabled again, a second one is in flight.
C12_Witness ==
    /\ deleteCalls = 2
    /\ deleteRequests = 1
    /\ isDeleting
    /\ ~deleteSuccess

\* No request is sent in this step and the saving flag stays clear.
NothingSent ==
    /\ updateCalls' = updateCalls
    /\ updateRequests' = updateRequests
    /\ ~isSaving'

\* C13: a click on Save with a body that is empty after trimming sets the
\* edit error to "Content cannot be empty", sends no update request, leaves
\* the saving flag clear and the item in edit mode.
C13_EmptyBodyRejected ==
    [][(ClickSave /\ \A k \in 1..Len(editedContent) : editedContent[k] = " ")
          => /\ editError' = "Content cannot be empty"
             /\ NothingSent
             /\ isEditing']_vars

\* C13 witness: a body of one space was rejected before any request.
C13_Witness ==
    /\ editedContent = <<" ">>
    /\ editError = "Content cannot be empty"
    /\ isEditing
    /\ updateCalls = 0

\* C14: a click on Save on a link or a video whose trimmed body is not empty
\* and not a URL sets an edit error and sends no update request; on a note
\* every body that is not empty after trimming is sent.
C14_UrlCheckedForLinkAndVideo ==
    [][ClickSave =>
          /\ (/\ content.type \in {"link", "video"}
              /\ Truthy(trim(editedContent))
              /\ ~ParsesAsURL(trim(editedContent)))
                => (editError' = "Please enter a valid URL" /\ NothingSent)
          /\ (content.type = "note" /\ Truthy(trim(editedContent)))
                => (/\ updateCalls' = updateCalls + 1
                    /\ editError' = "null"
                    /\ isSaving')]_vars

\* C14 witness: a video whose body "x" is no URL was rejected.
C14_Witness ==
    /\ content.type = "video"
    /\ editedContent = <<" ", "x", " ">>
    /\ editError = "Please enter a valid URL"
    /\ updateCalls = 0

\* C15: when the update request fails the edit error shows the failure,
\* the item stays in edit mode with the draft as it is, no success banner
\* is shown, no timer is set and onRefresh is not called.
C15_SaveFailureShown ==
    [][(\E i \in 1..MaxRequests : UpdateFails(i))
          => /\ editError' = "Failed to save changes. Please try again."
             /\ isEditing'
             /\ editedContent' = editedContent
             /\ ~saveSuccess'
             /\ ~isSaving'
             /\ saveTimers' = saveTimers
             /\ refreshCalls' = refreshCalls]_vars

\* C15 witness: a save failed after the user changed the draft while the
\* request was in flight.
C15_Witness ==
    /\ editError = "Failed to save changes. Please try again."
    /\ isEditing
    /\ editedContent = <<":", "x">>
    /\ content.type = "note"
    /\ updateRequests = <<>>

\* The only error the card renders is the edit error.
errorShown == editError # "null"

\* C16: when the delete request fails a message is shown to the user and
\* the item stays displayed, not deleted.
C16_DeleteFailureShown ==
    [][DeleteFails
          => /\ errorShown'
             /\ ~deleteSuccess'
             /\ ~isDeleted'
             /\ ~isDeleting']_vars

\* C17: a request is sent only by a click on Save or on the confirmation
\* of the deletion, one request per click: nothing is sent when a request
\* fails or a timer fires.
C17_NoAutomaticRetry ==
    [][requestsSent' # requestsSent
          => /\ ClickSave \/ ClickConfirmDelete
             /\ requestsSent' = requestsSent + 1]_vars

\* C17 witness: a request has failed and nothing is in flight.
C17_Witness ==
    /\ editError = "Failed to save changes. Please try again."
    /\ updateCalls = 1
    /\ ~updateInFlight
    /\ ~deleteInFlight

\* C18: a document never is in edit mode and no update request is ever
\* sent for it.
C18_DocumentNotEditable ==
    content.type = "document" => (~isEditing /\ updateCalls = 0)

\* C18 witness: a document, expanded, after a failed attempt to delete it.
C18_Witness ==
    /\ content.type = "document"
    /\ isExpanded
    /\ deleteCalls = 1
    /\ ~deleteInFlight
    /\ ~deleteSuccess

pendingTimers == saveTimers + deleteTimers

\* A request settles with success in this step.
RequestSucceeds ==
    \/ \E i \in 1..Len(updateRequests) : UpdateSucceeds(i)
    \/ DeleteSucceeds

\* C22: every update or delete request that succeeds sets one timer and
\* nothing else does; a timer that goes is one call of onRefresh and
\* nothing else calls it; so a rejected save and a failed request cause no
\* call, whatever the user does while timers are pending.
C22_RefreshOncePerSuccess ==
    [][/\ RequestSucceeds =>
              (pendingTimers' = pendingTimers + 1
                  /\ refreshCalls' = refreshCalls)
       /\ pendingTimers' > pendingTimers => RequestSucceeds
       /\ refreshCalls' # refreshCalls =>
              (refreshCalls' = refreshCalls + 1
                  /\ pendingTimers' = pendingTimers - 1)
       /\ pendingTimers' < pendingTimers => refreshCalls' = refreshCalls + 1
       /\ (ClickSave \/ (\E i \in 1..Len(updateRequests) : UpdateFails(i))
              \/ DeleteFails) =>
              (refreshCalls' = refreshCalls
                  /\ pendingTimers' = pendingTimers)]_vars

\* C22 witness: a save succeeded, then a deletion; the timer of the
\* deletion has called onRefresh and the timer of the save is pending.
C22_Witness ==
    /\ refreshCalls = 1
    /\ saveTimers = 1
    /\ deleteTimers = 0
    /\ deleteSuccess

(***************************************************************************)
(* Properties of EnhancedNewThreadModal                                    *)
(***************************************************************************)
ServerAssignedFields ==
    {"id", "createdAt", "updatedAt", "repliesCount", "isResolved"}

\* A text that is not empty and has no white space at either end.
TrimmedNonEmpty(str) ==
    /\ Len(str) > 0
    /\ ~IsWhiteSpace(str[1])
    /\ ~IsWhiteSpace(str[Len(str)])

WellFormedPayload(p) ==
    /\ TrimmedNonEmpty(p.title)
    /\ TrimmedNonEmpty(p.content)
    /\ p.threadType = "classroom"
          => ("unitId" \in DOMAIN p /\ p.unitId \in {"u1", "u2"})
    /\ p.threadType = "generic"
          => ("category" \in DOMAIN p /\ p.category \in CategoryIds)
    /\ DOMAIN p \cap ServerAssignedFields = {}

\* The form holds what a payload needs.
FormComplete ==
    /\ \E k \in 1..Len(title) : ~IsWhiteSpace(title[k])
    /\ \E k \in 1..Len(modalContent) : ~IsWhiteSpace(modalContent[k])
    /\ threadType = "classroom" => selectedUnitId # ""
    /\ threadType = "generic" => modalSelectedCategory # ""

\* C19: every payload handed to onSubmit has a trimmed, non-empty title and
\* body, the unit of a classroom thread or the category of a generic one,
\* and no server-assigned field; onSubmit is called only when the form
\* holds all of these.
C19_SubmittedPayloads ==
    /\ \A k \in 1..Len(submitted) : WellFormedPayload(submitted[k])
    /\ [][/\ \A k \in 1..Len(submitted') : WellFormedPayload(submitted'[k])
          /\ submitted' # submitted => FormComplete]_vars

\* C19 witness: a title and a body typed with white space around them have
\* been submitted, trimmed.
C19_Witness ==
    /\ Len(submitted) = 1
    /\ title = <<" ", "x", " ">>
    /\ modalContent = <<" ", "x", " ">>
    /\ submitted[1].title = <<"x">>

StartsWith(next, arr) ==
    /\ Len(arr) <= Len(next)
    /\ \A k \in 1..Len(arr) : next[k] = arr[k]

\* The generated tags whose key word is in the body, in any case of the
\* letters.
GeneratedFor(body) ==
    {t \in TagTexts :
        \E w \in {<<"g", "r", "a", "p", "h">>, <<"p", "r", "o", "o", "f">>} :
            /\ StartsWith(t, w)
            /\ \E off \in 0..Len(body) :
                  \A k \in 1..Len(w) :
                      /\ off + k <= Len(body)
                      /\ SameLetter(body[off + k], w[k])}

\* At most one suggestion is in flight, and the flag that disables the
\* button is set exactly while one is.
OneSuggestion ==
    /\ Len(aiRequests) <= 1
    /\ isGeneratingAiSuggestion <=> aiRequests # <<>>
    /\ isGeneratingAiSuggestion => aiButtonDisabled

DistinctTags(arr) ==
    \A i, j \in 1..Len(arr) : i # j => arr[i] # arr[j]

\* The tag is the typed text without the white space around it and with
\* its capital letters made small.
NormalisedFrom(tag, typed) ==
    /\ Len(tag) > 0
    /\ ~IsWhiteSpace(tag[1]) /\ ~IsWhiteSpace(tag[Len(tag)])
    /\ \A k \in 1..Len(tag) : tag[k] \notin {"A", "B"}
    /\ \E off \in 0..(Len(typed) - Len(tag)) :
          /\ \A k \in 1..Len(tag) : SameLetter(tag[k], typed[off + k])
          /\ \A k \in 1..Len(typed) :
                (k <= off \/ k > off + Len(tag)) => IsWhiteSpace(typed[k])

\* The list next is the list arr without its k-th tag.
WithoutPosition(next, arr, k) ==
    /\ Len(next) = Len(arr) - 1
    /\ \A m \in 1..Len(next) :
          next[m] = IF m < k THEN arr[m] ELSE arr[m + 1]

\* C25: the tag list never holds a tag twice; Enter on a typed tag leaves
\* the list as it is or appends the tag trimmed and in small letters; the
\* removal of a tag takes out that tag and keeps the others in order.
C25_TagsDistinct ==
    /\ DistinctTags(tags)
    /\ [][/\ DistinctTags(tags')
          /\ (PressEnterInTagInput /\ ~Blank(currentTag)) =>
                \E tag \in TagTexts :
                    /\ NormalisedFrom(tag, currentTag)
                    /\ IF \E k \in 1..Len(tags) : tags[k] = tag
                       THEN tags' = tags
                       ELSE tags' = Append(tags, tag)
          /\ \A tag \in TagTexts :
                RemoveTag(tag) =>
                    \E k \in 1..Len(tags) :
                        tags[k] = tag /\ WithoutPosition(tags', tags, k)
       ]_vars

\* C25 witness: the list holds a generated tag, the user's own tag and a
\* second generated tag, and the user has typed the first one again with
\* capitals and white space.
C25_Witness ==
    /\ Len(tags) = 3
    /\ tags[1] = <<"g", "r", "a", "p", "h", "i", "n", "g">>
    /\ tags[2] = <<"a", "b">>
    /\ NormalisedFrom(tags[1], currentTag)
    /\ currentTag # tags[1]

====
